---------------------------- MODULE Spec2Model ----------------------------
(***************************************************************************)
(* A model of commonjs/kanso/permissions.js: the three document validators *)
(* (matchUsername, uneditable, usernameMatchesField), the registry of      *)
(* initialization markup (registerInitializationMarkup,                    *)
(* generateInitializationMarkup) and the two form renderers (table, div).  *)
(*                                                                         *)
(* Representation.                                                         *)
(*  - A JavaScript string is a sequence of text atoms.  A string that is   *)
(*    an input of the program is spelled one character per atom, so that   *)
(*    substr, toUpperCase, replace, join and the array-index test are      *)
(*    computed on its characters; a string literal of the source is one    *)
(*    atom, and so is an input the source compares with a literal or uses  *)
(*    as a literal property name ('hidden', 'message', 'name').            *)
(*    Concatenation is \o.                                                 *)
(*  - A JavaScript value is a record [t, v]: t is the type tag and v the   *)
(*    payload (the characters of a string, the literal of a number or a    *)
(*    boolean, the string a function returns when called, the own          *)
(*    properties of an object).  An object also carries its identity, ref. *)
(*  - The own properties of an object are a sequence of [key, value]       *)
(*    pairs in creation order.                                             *)
(*  - Markup is a sequence of tokens: an opening tag with its attributes,  *)
(*    a closing tag, a run of text, or the markup returned by one call of  *)
(*    widget.toHTML.                                                       *)
(***************************************************************************)
EXTENDS Integers, Sequences, FiniteSets

VARIABLES
    initialization_markup,  \* exports._initialization_markup: its own properties
    firstRegistered,        \* history: [key, value] of the registry driver's first call per name
    generated,              \* history: generate() calls since the last register call
    call,                   \* the last call made on the module: [op, ...]
    ret,                    \* what that call returned, or the error it threw
    variant,                \* the renderer constructed: "table" or "div"
    renderer,               \* the renderer object (`this` in its methods): [depth]
    root,                   \* form driver: the path of the form's top level
    phase,                  \* form driver: "constructed", "walking" or "ended"
    open,                   \* form driver: paths of the groups begun and not ended
    html,                   \* form driver: the fragments returned so far, concatenated
    pass                    \* history: the renderer methods called in this pass

registryVars == <<initialization_markup, firstRegistered, generated>>
renderVars == <<variant, renderer, root, phase, open, html, pass>>
vars == <<registryVars, call, ret, renderVars>>

\* ------------------------------------------------------------------ bounds

\* Calls of beginGroup, field, embed and embedList the form driver makes in a pass.
MaxVisits == 4
\* Distinct names the registry driver passes to registerInitializationMarkup.
MaxNames == 3
\* generate() calls the registry driver makes between two register calls.
MaxGenerate == 2

\* ------------------------------------------------------- JavaScript values

Undefined == [t |-> "undefined", v |-> <<>>]
Null == [t |-> "null", v |-> <<>>]
JSString(s) == [t |-> "string", v |-> s]
JSNumber(lit) == [t |-> "number", v |-> <<lit>>]
JSBoolean(lit) == [t |-> "boolean", v |-> <<lit>>]
\* A function of no arguments that returns the string s.
JSFunction(s) == [t |-> "function", v |-> s]
JSObject(r, props) == [t |-> "object", v |-> props, ref |-> r]

\* ToBoolean, as used by `if (x)` and `!x`.
Truthy(x) ==
    CASE x.t = "undefined" -> FALSE
      [] x.t = "null" -> FALSE
      [] x.t = "string" -> x.v # <<>>
      [] x.t = "number" -> x.v \notin {<<"0">>, <<"NaN">>}
      [] x.t = "boolean" -> x.v = <<"true">>
      [] OTHER -> TRUE

\* The operator ===; its negation is !==.
StrictEquals(x, y) ==
    CASE x.t # y.t -> FALSE
      [] x.t = "number" -> x.v = y.v /\ x.v # <<"NaN">>
      [] x.t = "object" -> x.ref = y.ref
      [] OTHER -> x.v = y.v

\* JSToString of a primitive, as applied by `m += ''` and by string `+`.
JSToString(x) ==
    CASE x.t = "undefined" -> <<"undefined">>
      [] x.t = "null" -> <<"null">>
      [] x.t = "object" -> <<"[object Object]">>
      [] OTHER -> x.v

\* ------------------------------------------------------------ property keys

DigitChars == <<"0", "1", "2", "3", "4", "5", "6", "7", "8", "9">>

IsDigit(c) == \E i \in 1..Len(DigitChars) : DigitChars[i] = c

DigitValue(c) == (CHOOSE i \in 1..Len(DigitChars) : DigitChars[i] = c) - 1

\* a <= b for two runs of digits of the same length, read as numbers.
RECURSIVE DigitsLeq(_, _)
DigitsLeq(a, b) ==
    IF a = <<>> THEN TRUE
    ELSE IF DigitValue(a[1]) # DigitValue(b[1]) THEN DigitValue(a[1]) < DigitValue(b[1])
    ELSE DigitsLeq(Tail(a), Tail(b))

\* a <= b for two canonical decimal numerals (no leading zero).
DecimalLeq(a, b) ==
    Len(a) < Len(b) \/ (Len(a) = Len(b) /\ DigitsLeq(a, b))

\* The largest array index, 2^32 - 2 = 4294967294.
MaxArrayIndex == <<"4", "2", "9", "4", "9", "6", "7", "2", "9", "4">>

\* An own property key is an array index when it is the canonical decimal
\* form of an integer in 0..2^32-2: such keys are enumerated first.
IsArrayIndex(key) ==
    /\ key # <<>>
    /\ \A i \in 1..Len(key) : IsDigit(key[i])
    /\ (Len(key) > 1 => key[1] # "0")
    /\ DecimalLeq(key, MaxArrayIndex)

\* The properties every object inherits from Object.prototype.
ObjectPrototypeKeys ==
    { <<"constructor">>, <<"toString">>, <<"toLocaleString">>, <<"valueOf">>,
      <<"hasOwnProperty">>, <<"isPrototypeOf">>, <<"propertyIsEnumerable">>,
      <<"__proto__">>, <<"__defineGetter__">>, <<"__defineSetter__">>,
      <<"__lookupGetter__">>, <<"__lookupSetter__">> }

HasOwn(props, key) == \E i \in 1..Len(props) : props[i].key = key

OwnIndex(props, key) == CHOOSE i \in 1..Len(props) : props[i].key = key

\* props[key] on a plain object: the own property, else the inherited one.
GetProperty(props, key) ==
    IF HasOwn(props, key) THEN props[OwnIndex(props, key)].value
    ELSE IF key \in ObjectPrototypeKeys THEN JSFunction(<<"[native code]">>)
    ELSE Undefined

\* props[key] = value: an own property keeps its place, a new one is added last.
SetProperty(props, key, value) ==
    IF HasOwn(props, key)
    THEN [props EXCEPT ![OwnIndex(props, key)].value = value]
    ELSE Append(props, [key |-> key, value |-> value])

RECURSIVE AscendingIndexKeys(_)
AscendingIndexKeys(keys) ==
    IF keys = {} THEN <<>>
    ELSE LET least == CHOOSE k \in keys :
                          \A other \in keys : DecimalLeq(k, other)
         IN <<least>> \o AscendingIndexKeys(keys \ {least})

RECURSIVE StringKeysInOrder(_)
StringKeysInOrder(props) ==
    IF props = <<>> THEN <<>>
    ELSE (IF IsArrayIndex(props[1].key) THEN <<>> ELSE <<props[1].key>>)
         \o StringKeysInOrder(Tail(props))

\* The keys in creation order, array indices not moved to the front.
KeysInCreationOrder(props) == [i \in 1..Len(props) |-> props[i].key]

\* The keys `for (var key in obj)` visits, in order: array indices ascending,
\* then the other keys in creation order.
ForInKeys(props) ==
    AscendingIndexKeys({props[i].key : i \in {j \in 1..Len(props) : IsArrayIndex(props[j].key)}})
    \o StringKeysInOrder(props)

\* ------------------------------------------- initialization markup registry

\* exports.registerInitializationMarkup: the registry after the call.
registerInitializationMarkup(markup, name, value) ==
    IF ~Truthy(GetProperty(markup, name))
    THEN SetProperty(markup, name, value)
    ELSE markup

\* A loop body that stores the coerced markup back into the registry.
LoopBodyWritingBack(acc, key) ==
    LET m0 == GetProperty(acc.markup_list, key)
        m == IF m0.t = "function" THEN m0.v ELSE JSToString(m0)
    IN [rv |-> acc.rv \o <<"\n">> \o m,
        markup_list |-> SetProperty(acc.markup_list, key, JSString(m))]

\* One iteration of the loop of generateInitializationMarkup.
GenerateLoopBody(acc, key) ==
    LET m0 == GetProperty(acc.markup_list, key)
        m == IF m0.t = "function" THEN m0.v ELSE JSToString(m0)
    IN [rv |-> acc.rv \o <<"\n">> \o m, markup_list |-> acc.markup_list]

RECURSIVE GenerateLoop(_, _)
GenerateLoop(acc, keys) ==
    IF keys = <<>> THEN acc
    ELSE GenerateLoop(GenerateLoopBody(acc, Head(keys)), Tail(keys))

\* exports.generateInitializationMarkup: [rv: the string returned,
\* markup_list: the registry after the call].
generateInitializationMarkup(markup) ==
    GenerateLoop([rv |-> <<>>, markup_list |-> markup], ForInKeys(markup))

\* ---------------------------------------------------------- registry driver

\* Names passed to registerInitializationMarkup.
RegistryNames ==
    { <<"b">>, <<"2">>, <<"1", "0">>, <<"0", "1">> }

\* Values passed to registerInitializationMarkup: functions and static strings.
RegistryValues ==
    { JSFunction(<<"F">>), JSString(<<>>), JSString(<<"A">>) }

NoCall == [op |-> "none"]

InitRegistry ==
    /\ initialization_markup = <<>>
    /\ firstRegistered = <<>>
    /\ generated = 0
    /\ call = NoCall
    /\ ret = Undefined
    /\ variant = "table"
    /\ renderer = [depth |-> Undefined]
    /\ root = <<>>
    /\ phase = "constructed"
    /\ open = <<>>
    /\ html = <<>>
    /\ pass = <<>>

Register(name, value) ==
    /\ HasOwn(firstRegistered, name) \/ Len(firstRegistered) < MaxNames
    /\ initialization_markup' =
           registerInitializationMarkup(initialization_markup, name, value)
    /\ firstRegistered' =
           IF HasOwn(firstRegistered, name) THEN firstRegistered
           ELSE Append(firstRegistered, [key |-> name, value |-> value])
    /\ generated' = 0
    /\ call' = [op |-> "register", name |-> name]
    /\ ret' = Undefined
    /\ UNCHANGED renderVars

Generate ==
    /\ generated < MaxGenerate
    /\ LET r == generateInitializationMarkup(initialization_markup)
       IN /\ initialization_markup' = r.markup_list
          /\ ret' = JSString(r.rv)
    /\ generated' = generated + 1
    /\ call' = [op |-> "generate"]
    /\ UNCHANGED <<firstRegistered, renderVars>>

NextRegistry ==
    \/ \E name \in RegistryNames, value \in RegistryValues : Register(name, value)
    \/ Generate

SpecRegistry == InitRegistry /\ [][NextRegistry]_vars

\* ---------------------------------------------------------- registry claims

\* The markup one entry contributes: the result of calling it when it is a
\* function, its string form otherwise.
EntryMarkup(value) == IF value.t = "function" THEN value.v ELSE JSToString(value)

\* Newline-prefixed markup of the entries props[order[1]], props[order[2]], ...
RECURSIVE MarkupInOrder(_, _)
MarkupInOrder(props, order) ==
    IF order = <<>> THEN <<>>
    ELSE <<"\n">> \o EntryMarkup(props[Head(order)].value)
         \o MarkupInOrder(props, Tail(order))

IdentityOrder(n) == [i \in 1..n |-> i]

Permutations(n) ==
    {p \in [1..n -> 1..n] : \A i, j \in 1..n : p[i] = p[j] => i = j}

\* order lists the entries with the array-index names first, ascending by
\* number, and the other names after them in the order they were registered.
IndexNamesFirst(props, order) ==
    \A i, j \in 1..Len(order) :
        i < j =>
            LET a == props[order[i]].key
                b == props[order[j]].key
            IN /\ IsArrayIndex(b) => IsArrayIndex(a)
               /\ (IsArrayIndex(a) /\ IsArrayIndex(b)) => DecimalLeq(a, b)
               /\ (~IsArrayIndex(a) /\ ~IsArrayIndex(b)) => order[i] < order[j]

\* C1 (as claimed): after any sequence of registerInitializationMarkup calls,
\* the entry stored under every name used so far is the value passed by the
\* first call that used that name (so no later call overwrote it).
C1_FirstWriteWins ==
    \A i \in 1..Len(firstRegistered) :
        /\ HasOwn(initialization_markup, firstRegistered[i].key)
        /\ GetProperty(initialization_markup, firstRegistered[i].key)
               = firstRegistered[i].value

\* C3 (as claimed): generateInitializationMarkup() returns the newline-prefixed
\* markup of every registered entry in the order the entries were registered,
\* whatever the names are.
C3_RegistrationOrder ==
    call.op = "generate" =>
        ret = JSString(MarkupInOrder(initialization_markup,
                                     IdentityOrder(Len(initialization_markup))))

\* C3 (amended): generateInitializationMarkup() returns the newline-prefixed
\* markup of every registered entry, the entries whose names are array indices
\* first in ascending numeric order, then the other entries in the order they
\* were registered; with no array-index name this is the registration order.
C3_EnumerationOrder ==
    call.op = "generate" =>
        /\ \E order \in Permutations(Len(initialization_markup)) :
               /\ IndexNamesFirst(initialization_markup, order)
               /\ ret = JSString(MarkupInOrder(initialization_markup, order))
        /\ (\A i \in 1..Len(initialization_markup) :
                ~IsArrayIndex(initialization_markup[i].key))
              => ret = JSString(MarkupInOrder(initialization_markup,
                                   IdentityOrder(Len(initialization_markup))))

\* C3 witness: generate() has run on a registry that holds a function and a
\* static string, where an array-index name was registered after another name.
C3_Witness ==
    /\ call.op = "generate"
    /\ Len(initialization_markup) >= 3
    /\ ~IsArrayIndex(initialization_markup[1].key)
    /\ IsArrayIndex(initialization_markup[2].key)
    /\ IsArrayIndex(initialization_markup[3].key)
    /\ initialization_markup[3].key = <<"2">>
    /\ initialization_markup[1].value.t = "function"
    /\ initialization_markup[2].value = JSString(<<"A">>)

\* C4: a generateInitializationMarkup() call leaves the registry as it was, and
\* when the call before it was generate() too, with no registration in between,
\* it returns the same output.
C4_GenerateLeavesRegistry ==
    [][call'.op = "generate" =>
          /\ initialization_markup' = initialization_markup
          /\ (call.op = "generate" => ret' = ret)]_vars

\* C4 witness: two generate() calls in a row on a registry that holds a
\* function and static strings, one of them empty.
C4_Witness ==
    /\ call.op = "generate"
    /\ generated = 2
    /\ \E i, j, k \in 1..Len(initialization_markup) :
           /\ initialization_markup[i].value.t = "function"
           /\ initialization_markup[j].value = JSString(<<"A">>)
           /\ initialization_markup[k].value = JSString(<<>>)

\* ------------------------------------------------------------------ strings

LowerChars == <<"a", "b", "c", "d", "e", "f", "g", "h", "i", "j", "k", "l", "m",
                "n", "o", "p", "q", "r", "s", "t", "u", "v", "w", "x", "y", "z">>

UpperChars == <<"A", "B", "C", "D", "E", "F", "G", "H", "I", "J", "K", "L", "M",
                "N", "O", "P", "Q", "R", "S", "T", "U", "V", "W", "X", "Y", "Z">>

\* String.prototype.toUpperCase on one character.
ToUpperCase(c) ==
    IF \E i \in 1..Len(LowerChars) : LowerChars[i] = c
    THEN UpperChars[CHOOSE i \in 1..Len(LowerChars) : LowerChars[i] = c]
    ELSE c

\* s.substr(start, length), for 0 <= start.
Substr(s, start, length) ==
    SubSeq(s, start + 1, IF start + length > Len(s) THEN Len(s) ELSE start + length)

\* s.substr(start): the rest of the string.
SubstrFrom(s, start) == SubSeq(s, start + 1, Len(s))

\* s.replace(/_/g, ' ').
ReplaceUnderscores(s) == [i \in 1..Len(s) |-> IF s[i] = "_" THEN " " ELSE s[i]]

\* Array.prototype.join: the strings of list with sep between them.
RECURSIVE Join(_, _)
Join(list, sep) ==
    IF list = <<>> THEN <<>>
    ELSE IF Len(list) = 1 THEN list[1]
    ELSE list[1] \o sep \o Join(Tail(list), sep)

\* Array.prototype.slice(begin): a negative begin counts from the end.
ArraySlice(list, begin) ==
    LET from == IF begin < 0
                THEN (IF Len(list) + begin < 0 THEN 0 ELSE Len(list) + begin)
                ELSE (IF begin > Len(list) THEN Len(list) ELSE begin)
    IN SubSeq(list, from + 1, Len(list))

\* _.last(array).
Last(list) == list[Len(list)]

\* The decimal digits of a natural number.
RECURSIVE NaturalString(_)
NaturalString(n) ==
    IF n < 10 THEN <<DigitChars[n + 1]>>
    ELSE NaturalString(n \div 10) \o <<DigitChars[(n % 10) + 1]>>

\* Number to string, as in 'level-' + this.depth.
NumberString(n) == IF n < 0 THEN <<"-">> \o NaturalString(-n) ELSE NaturalString(n)

\* ------------------------------------------------------------------- markup

Attr(name, value) == [name |-> name, value |-> value]
OpenTag(tag, attrs) == [k |-> "open", tag |-> tag, attrs |-> attrs]
CloseTag(tag) == [k |-> "close", tag |-> tag]
Text(s) == [k |-> "text", text |-> s]
\* Inserted text: an empty string adds nothing to the markup.
Inserted(s) == IF s = <<>> THEN <<>> ELSE <<Text(s)>>

\* A JavaScript array.
JSArray(elems) == [t |-> "array", v |-> elems]

\* The markup field.widget.toHTML(name, value, raw, field) returns: a unit of
\* the widget's own, identified by the arguments of the call.
WidgetToHTML(name, value, raw, field) ==
    <<[k |-> "widget", name |-> name, value |-> value, raw |-> raw,
       widget |-> field.widget]>>

\* ---------------------------------------------------------- markup utilities

\* errors[i].message || errors[i].toString()
ErrorMessage(e) ==
    LET message == IF e.t = "object" THEN GetProperty(e.v, <<"message">>)
                   ELSE Undefined
    IN IF Truthy(message) THEN JSToString(message) ELSE JSToString(e)

RECURSIVE ErrorItems(_)
ErrorItems(list) ==
    IF list = <<>> THEN <<>>
    ELSE <<OpenTag("li", <<Attr("class", <<"error_msg">>)>>)>>
         \o Inserted(ErrorMessage(Head(list)))
         \o <<CloseTag("li")>>
         \o ErrorItems(Tail(list))

\* exports.errorHTML
errorHTML(errors) ==
    IF Truthy(errors) /\ errors.t = "array" /\ Len(errors.v) > 0
    THEN <<OpenTag("ul", <<Attr("class", <<"errors">>)>>)>>
         \o ErrorItems(errors.v)
         \o <<CloseTag("ul")>>
    ELSE <<>>

\* name.substr(0, 1).toUpperCase() + name.substr(1).replace(/_/g, ' ')
Capitalized(name) ==
    [i \in 1..Len(Substr(name, 0, 1)) |-> ToUpperCase(Substr(name, 0, 1)[i])]
    \o ReplaceUnderscores(SubstrFrom(name, 1))

\* exports.labelText
labelText(field, name) ==
    IF Truthy(field.label) THEN JSToString(field.label) ELSE Capitalized(name)

\* exports.labelHTML
labelHTML(field, name, id) ==
    <<OpenTag("label",
              <<Attr("for", IF Truthy(id) THEN JSToString(id) ELSE <<"id_">> \o name)>>)>>
    \o Inserted(labelText(field, name))
    \o <<CloseTag("label")>>

\* exports.descriptionHTML
descriptionHTML(obj) ==
    IF Truthy(obj.description)
    THEN <<OpenTag("div", <<Attr("class", <<"description">>)>>)>>
         \o Inserted(JSToString(obj.description))
         \o <<CloseTag("div")>>
    ELSE <<>>

\* exports.hintHTML
hintHTML(obj) ==
    IF Truthy(obj.hint)
    THEN <<OpenTag("div", <<Attr("class", <<"hint">>)>>)>>
         \o Inserted(JSToString(obj.hint))
         \o <<CloseTag("div")>>
    ELSE <<>>

\* exports.classes
classes(field, errors) ==
    <<(<<"field">>)>>
    \o (IF Truthy(errors) /\ errors.t = "array" /\ Len(errors.v) > 0
        THEN <<(<<"error">>)>> ELSE <<>>)
    \o (IF Truthy(field.required) THEN <<(<<"required">>)>> ELSE <<>>)

\* ----------------------------------------------------------- table renderer

\* The renderer object right after `new exports.table()` or `new exports.div()`:
\* this.depth is not set until start().
NewRenderer == [depth |-> Undefined]

\* table: this.initializationMarkupForEmbed, a function returning
\* widgets.scriptTagForInit('kanso/embed', 'bind').
initializationMarkupForEmbed ==
    JSFunction(<<"scriptTagForInit('kanso/embed', 'bind')">>)

EmbedMarkupName == <<"built-in embed/embedList">>

\* table: this.start
table_start(this) ==
    [this |-> [this EXCEPT !.depth = 0],
     html |-> <<OpenTag("table", <<Attr("class", <<"render-table">>)>>)>>]

\* table: this.beginGroup
table_beginGroup(this, path) ==
    LET depth == this.depth + 1
        name == Last(path)
        css_class == <<"level-">> \o NumberString(depth)
    IN [this |-> [this EXCEPT !.depth = depth],
        html |-> <<OpenTag("tbody", <<Attr("class", <<"head ">> \o css_class)>>),
                   OpenTag("tr", <<>>),
                   OpenTag("th", <<Attr("colspan", <<"3">>)>>)>>
                 \o Inserted(Capitalized(name))
                 \o <<CloseTag("th"), CloseTag("tr"), CloseTag("tbody"),
                      OpenTag("tbody", <<Attr("class", <<"group ">> \o css_class)>>)>>]

\* An endGroup that leaves the depth as it is.
EndGroupKeepingDepth(this, path) ==
    [this |-> this, html |-> <<CloseTag("tbody")>>]

\* table: this.endGroup
table_endGroup(this, path) ==
    [this |-> [this EXCEPT !.depth = this.depth - 1],
     html |-> <<CloseTag("tbody")>>]

\* A field whose caption is the last path segment only.
FieldCaptionLastSegment(this, field, path, value, raw, errors) ==
    LET name == Join(path, <<".">>)
        caption == Last(path)
    IN [this |-> this,
        html |->
          IF field.widget.type = <<"hidden">>
          THEN WidgetToHTML(name, value, raw, field)
          ELSE <<OpenTag("tr", <<Attr("class", Join(classes(field, errors), <<" ">>))>>),
                 OpenTag("th", <<>>)>>
               \o labelHTML(field, caption, Undefined)
               \o descriptionHTML(field)
               \o <<CloseTag("th"), OpenTag("td", <<>>)>>
               \o WidgetToHTML(name, value, raw, field)
               \o hintHTML(field)
               \o <<CloseTag("td"),
                    OpenTag("td", <<Attr("class", <<"errors">>)>>)>>
               \o errorHTML(errors)
               \o <<CloseTag("td"), CloseTag("tr")>>]

\* table: this.field
table_field(this, field, path, value, raw, errors) ==
    LET name == Join(path, <<".">>)
        caption == Join(ArraySlice(path, this.depth), <<" ">>)
    IN [this |-> this,
        html |->
          IF field.widget.type = <<"hidden">>
          THEN WidgetToHTML(name, value, raw, field)
          ELSE <<OpenTag("tr", <<Attr("class", Join(classes(field, errors), <<" ">>))>>),
                 OpenTag("th", <<>>)>>
               \o labelHTML(field, caption, Undefined)
               \o descriptionHTML(field)
               \o <<CloseTag("th"), OpenTag("td", <<>>)>>
               \o WidgetToHTML(name, value, raw, field)
               \o hintHTML(field)
               \o <<CloseTag("td"),
                    OpenTag("td", <<Attr("class", <<"errors">>)>>)>>
               \o errorHTML(errors)
               \o <<CloseTag("td"), CloseTag("tr")>>]

\* table: this.embed
table_embed(this, markup, field, path, value, raw, errors) ==
    LET name == Join(path, <<".">>)
        caption == Join(ArraySlice(path, this.depth), <<" ">>)
    IN [this |-> this,
        markup |-> registerInitializationMarkup(
                       markup, EmbedMarkupName, initializationMarkupForEmbed),
        html |->
          <<OpenTag("tr", <<Attr("class", <<"embedded">>)>>),
            OpenTag("th", <<>>)>>
          \o labelHTML(field.type, caption, Undefined)
          \o descriptionHTML(field.type)
          \o <<CloseTag("th"),
               OpenTag("td", <<Attr("class", <<"field">>), Attr("rel", field.type.name)>>),
               OpenTag("table", <<Attr("rel", name)>>),
               OpenTag("tbody", <<>>), OpenTag("tr", <<>>), OpenTag("td", <<>>)>>
          \o WidgetToHTML(name, value, raw, field)
          \o <<CloseTag("td"),
               OpenTag("td", <<Attr("class", <<"actions">>)>>), CloseTag("td"),
               CloseTag("tr"), CloseTag("tbody"), CloseTag("table"),
               OpenTag("td", <<Attr("class", <<"errors">>)>>)>>
          \o errorHTML(errors)
          \o <<CloseTag("td"), CloseTag("tr")>>]

\* table: the rows of embedList, one per element of value (_.each).
RECURSIVE table_embedListRows(_, _, _, _)
table_embedListRows(elems, name, raw, field) ==
    IF elems = <<>> THEN <<>>
    ELSE <<OpenTag("tr", <<>>), OpenTag("td", <<>>)>>
         \o WidgetToHTML(name, Head(elems), raw, field)
         \o <<CloseTag("td"),
              OpenTag("td", <<Attr("class", <<"actions">>)>>), CloseTag("td"),
              CloseTag("tr")>>
         \o table_embedListRows(Tail(elems), name, raw, field)

\* _.each(value, ...) visits the elements of an array, and nothing when value
\* is null or undefined.
EachElement(value) == IF value.t = "array" THEN value.v ELSE <<>>

\* table: this.embedList
table_embedList(this, markup, field, path, value, raw, errors) ==
    LET name == Join(path, <<".">>)
        caption == Join(ArraySlice(path, this.depth), <<" ">>)
    IN [this |-> this,
        markup |-> registerInitializationMarkup(
                       markup, EmbedMarkupName, initializationMarkupForEmbed),
        html |->
          <<OpenTag("tr", <<Attr("class", <<"embeddedlist">>)>>),
            OpenTag("th", <<>>)>>
          \o labelHTML(field.type, caption, Undefined)
          \o descriptionHTML(field.type)
          \o <<CloseTag("th"),
               OpenTag("td", <<Attr("class", <<"field">>), Attr("rel", field.type.name)>>),
               OpenTag("table", <<Attr("rel", name)>>),
               OpenTag("tbody", <<>>)>>
          \o table_embedListRows(EachElement(value), name, raw, field)
          \o <<CloseTag("tbody"), CloseTag("table"), CloseTag("td"),
               OpenTag("td", <<Attr("class", <<"errors">>)>>)>>
          \o errorHTML(errors)
          \o <<CloseTag("td"), CloseTag("tr")>>]

\* table: this.end
table_end(this) == [this |-> this, html |-> <<CloseTag("table")>>]

\* ------------------------------------------------------------- div renderer

Div(class) == OpenTag("div", <<Attr("class", class)>>)

\* div: this.start
div_start(this) ==
    [this |-> [this EXCEPT !.depth = 0], html |-> <<Div(<<"render-div">>)>>]

\* div: this.beginGroup
div_beginGroup(this, path) ==
    LET depth == this.depth + 1
        name == Last(path)
        css_class == <<"level-">> \o NumberString(depth)
    IN [this |-> [this EXCEPT !.depth = depth],
        html |-> <<Div(<<"group ">> \o css_class), Div(<<"heading">>)>>
                 \o Inserted(Capitalized(name))
                 \o <<CloseTag("div")>>]

\* div: this.endGroup
div_endGroup(this, path) ==
    [this |-> [this EXCEPT !.depth = this.depth - 1],
     html |-> <<CloseTag("div")>>]

\* div: this.field
div_field(this, field, path, value, raw, errors) ==
    LET name == Join(path, <<".">>)
        caption == Join(ArraySlice(path, this.depth), <<" ">>)
    IN [this |-> this,
        html |->
          IF field.widget.type = <<"hidden">>
          THEN WidgetToHTML(name, value, raw, field)
          ELSE <<Div(Join(classes(field, errors), <<" ">>)),
                 Div(<<"scalar">>),
                 Div(<<"label">>),
                 OpenTag("label", <<Attr("for", name)>>)>>
               \o labelHTML(field, caption, Undefined)
               \o descriptionHTML(field)
               \o <<CloseTag("label"), CloseTag("div"),
                    Div(<<"content">>), Div(<<"inner">>)>>
               \o WidgetToHTML(name, value, raw, field)
               \o <<CloseTag("div"), Div(<<"hint">>)>>
               \o hintHTML(field)
               \o <<CloseTag("div"), Div(<<"errors">>)>>
               \o errorHTML(errors)
               \o <<CloseTag("div"), CloseTag("div"), CloseTag("div"),
                    CloseTag("div")>>]

\* div: this.embed
div_embed(this, markup, field, path, value, raw, errors) ==
    LET name == Join(path, <<".">>)
        caption == Join(ArraySlice(path, this.depth), <<" ">>)
    IN [this |-> this,
        markup |-> markup,
        html |->
          <<Div(Join(classes(field.type, errors), <<" ">>)),
            Div(<<"embedded">>),
            Div(<<"label">>),
            OpenTag("label", <<Attr("for", name)>>)>>
          \o labelHTML(field.type, caption, Undefined)
          \o descriptionHTML(field.type)
          \o <<CloseTag("label"), CloseTag("div"),
               OpenTag("div", <<Attr("class", <<"content">>), Attr("rel", field.type.name)>>),
               OpenTag("div", <<Attr("class", <<"inner">>), Attr("rel", name)>>)>>
          \o WidgetToHTML(name, value, raw, field)
          \o <<CloseTag("div"),
               Div(<<"actions">>), CloseTag("div"),
               Div(<<"errors">>)>>
          \o errorHTML(errors)
          \o <<CloseTag("div"), CloseTag("div"), CloseTag("div")>>]

\* div: the items of embedList, one per element of value (_.each); each item
\* passes the whole value to widget.toHTML.
RECURSIVE div_embedListItems(_, _, _, _, _)
div_embedListItems(elems, name, value, raw, field) ==
    IF elems = <<>> THEN <<>>
    ELSE <<OpenTag("div", <<Attr("class", <<"item">>), Attr("rel", name)>>),
           Div(<<"inner">>)>>
         \o WidgetToHTML(name, value, raw, field)
         \o <<CloseTag("div"),
              Div(<<"actions">>), CloseTag("div"),
              CloseTag("div")>>
         \o div_embedListItems(Tail(elems), name, value, raw, field)

\* div: this.embedList
div_embedList(this, markup, field, path, value, raw, errors) ==
    LET name == Join(path, <<".">>)
        caption == Join(ArraySlice(path, this.depth), <<" ">>)
    IN [this |-> this,
        markup |-> markup,
        html |->
          <<Div(Join(classes(field.type, errors), <<" ">>)),
            Div(<<"embeddedlist">>),
            Div(<<"label">>),
            OpenTag("label", <<Attr("for", name)>>)>>
          \o labelHTML(field.type, caption, Undefined)
          \o descriptionHTML(field.type)
          \o <<CloseTag("label"), CloseTag("div"),
               OpenTag("div", <<Attr("class", <<"content">>), Attr("rel", field.type.name)>>)>>
          \o div_embedListItems(EachElement(value), name, value, raw, field)
          \o <<Div(<<"errors">>)>>
          \o errorHTML(errors)
          \o <<CloseTag("div"), CloseTag("div"), CloseTag("div"), CloseTag("div")>>]

\* div: this.end
div_end(this) == [this |-> this, html |-> <<CloseTag("div")>>]

\* -------------------------------------------------------------- form driver

\* The external form layer: it constructs one renderer, calls start(), walks
\* the field tree depth first (the path of a child is the path of its parent
\* followed by the child's key), and calls end().

RootPaths == { <<>>, <<(<<"r", "o", "o", "t">>)>> }

GroupKeys == { <<"a", "d", "d", "r", "e", "s", "s">> }

TextWidget == [type |-> <<"text">>]
HiddenWidget == [type |-> <<"hidden">>]
EmbedWidget == [type |-> <<"embed">>]
EmbedListWidget == [type |-> <<"embedList">>]

FieldVisits ==
    { [key |-> <<"c", "i", "t", "y">>,
       field |-> [label |-> Undefined, description |-> Undefined, hint |-> Undefined,
                  required |-> JSBoolean("true"), widget |-> TextWidget],
       value |-> JSString(<<"N", "Y", "C">>), raw |-> JSString(<<"N", "Y", "C">>),
       errors |-> JSArray(<<>>)],
      [key |-> <<"f", "i", "r", "s", "t", "_", "n", "a", "m", "e">>,
       field |-> [label |-> Undefined, description |-> JSString(<<"d">>),
                  hint |-> JSString(<<"h">>), required |-> Undefined,
                  widget |-> TextWidget],
       value |-> Undefined, raw |-> Undefined,
       errors |-> JSArray(<<JSObject(9, <<[key |-> <<"message">>,
                                          value |-> JSString(<<"x">>)]>>)>>)],
      [key |-> <<"i", "d">>,
       field |-> [label |-> Undefined, description |-> Undefined, hint |-> Undefined,
                  required |-> Undefined, widget |-> HiddenWidget],
       value |-> JSString(<<"7">>), raw |-> JSString(<<"7">>),
       errors |-> Undefined] }

EmbedVisits ==
    { [key |-> <<"o", "w", "n", "e", "r">>,
       field |-> [widget |-> EmbedWidget,
                  type |-> [name |-> <<"p", "e", "r", "s", "o", "n">>,
                            label |-> Undefined, description |-> Undefined,
                            required |-> Undefined]],
       value |-> JSObject(1, <<>>), raw |-> Undefined,
       errors |-> JSArray(<<JSString(<<"b", "a", "d">>)>>)] }

EmbedListVisits ==
    { [key |-> <<"t", "a", "g", "s">>,
       field |-> [widget |-> EmbedListWidget,
                  type |-> [name |-> <<"t", "a", "g">>,
                            label |-> JSString(<<"C", "u", "s", "t", "o", "m">>),
                            description |-> JSString(<<"d">>),
                            required |-> Undefined]],
       value |-> JSArray(elems), raw |-> Undefined,
       errors |-> JSArray(<<>>)]
      : elems \in { <<>>, <<JSObject(1, <<>>), JSObject(2, <<>>)>> } }

\* The path of the innermost group begun and not ended, else the root path.
CurrentPath == IF open = <<>> THEN root ELSE Last(open)

VisitsLeft == Len(pass) <= MaxVisits

\* Dispatch on the renderer constructed.
Renderer_start(r) == IF variant = "table" THEN table_start(r) ELSE div_start(r)
Renderer_beginGroup(r, path) ==
    IF variant = "table" THEN table_beginGroup(r, path) ELSE div_beginGroup(r, path)
Renderer_endGroup(r, path) ==
    IF variant = "table" THEN table_endGroup(r, path) ELSE div_endGroup(r, path)
Renderer_field(r, v, path) ==
    IF variant = "table"
    THEN table_field(r, v.field, path, v.value, v.raw, v.errors)
    ELSE div_field(r, v.field, path, v.value, v.raw, v.errors)
Renderer_embed(r, markup, v, path) ==
    IF variant = "table"
    THEN table_embed(r, markup, v.field, path, v.value, v.raw, v.errors)
    ELSE div_embed(r, markup, v.field, path, v.value, v.raw, v.errors)
Renderer_embedList(r, markup, v, path) ==
    IF variant = "table"
    THEN table_embedList(r, markup, v.field, path, v.value, v.raw, v.errors)
    ELSE div_embedList(r, markup, v.field, path, v.value, v.raw, v.errors)
Renderer_end(r) == IF variant = "table" THEN table_end(r) ELSE div_end(r)

InitRender ==
    /\ initialization_markup = <<>>
    /\ firstRegistered = <<>>
    /\ generated = 0
    /\ call = NoCall
    /\ ret = Undefined
    /\ variant \in {"table", "div"}
    /\ renderer = NewRenderer
    /\ root \in RootPaths
    /\ phase = "constructed"
    /\ open = <<>>
    /\ html = <<>>
    /\ pass = <<>>

\* What every renderer call does to the driver: the fragment is appended.
Returned(op, r) ==
    /\ renderer' = r.this
    /\ ret' = r.html
    /\ html' = html \o r.html
    /\ pass' = Append(pass, op)
    /\ UNCHANGED <<variant, root, firstRegistered, generated>>

Start ==
    /\ phase = "constructed"
    /\ Returned("start", Renderer_start(renderer))
    /\ phase' = "walking"
    /\ call' = [op |-> "start"]
    /\ UNCHANGED <<open, initialization_markup>>

BeginGroup(key) ==
    /\ phase = "walking"
    /\ VisitsLeft
    /\ LET path == CurrentPath \o <<key>>
       IN /\ Returned("beginGroup", Renderer_beginGroup(renderer, path))
          /\ open' = Append(open, path)
          /\ call' = [op |-> "beginGroup", path |-> path]
    /\ UNCHANGED <<phase, initialization_markup>>

EndGroup ==
    /\ phase = "walking"
    /\ open # <<>>
    /\ Returned("endGroup", Renderer_endGroup(renderer, Last(open)))
    /\ open' = SubSeq(open, 1, Len(open) - 1)
    /\ call' = [op |-> "endGroup", path |-> Last(open)]
    /\ UNCHANGED <<phase, initialization_markup>>

VisitField(v) ==
    /\ phase = "walking"
    /\ VisitsLeft
    /\ LET path == CurrentPath \o <<v.key>>
       IN /\ Returned("field", Renderer_field(renderer, v, path))
          /\ call' = [op |-> "field", path |-> path, visit |-> v]
    /\ UNCHANGED <<phase, open, initialization_markup>>

VisitEmbed(v) ==
    /\ phase = "walking"
    /\ VisitsLeft
    /\ LET path == CurrentPath \o <<v.key>>
           r == Renderer_embed(renderer, initialization_markup, v, path)
       IN /\ Returned("embed", r)
          /\ initialization_markup' = r.markup
          /\ call' = [op |-> "embed", path |-> path, visit |-> v]
    /\ UNCHANGED <<phase, open>>

VisitEmbedList(v) ==
    /\ phase = "walking"
    /\ VisitsLeft
    /\ LET path == CurrentPath \o <<v.key>>
           r == Renderer_embedList(renderer, initialization_markup, v, path)
       IN /\ Returned("embedList", r)
          /\ initialization_markup' = r.markup
          /\ call' = [op |-> "embedList", path |-> path, visit |-> v]
    /\ UNCHANGED <<phase, open>>

End ==
    /\ phase = "walking"
    /\ open = <<>>
    /\ Returned("end", Renderer_end(renderer))
    /\ phase' = "ended"
    /\ call' = [op |-> "end"]
    /\ UNCHANGED <<open, initialization_markup>>

NextRender ==
    \/ Start
    \/ \E key \in GroupKeys : BeginGroup(key)
    \/ EndGroup
    \/ \E v \in FieldVisits : VisitField(v)
    \/ \E v \in EmbedVisits : VisitEmbed(v)
    \/ \E v \in EmbedListVisits : VisitEmbedList(v)
    \/ End

SpecRender == InitRender /\ [][NextRender]_vars

\* ----------------------------------------------------------- renderer claims

\* Reading markup left to right with the tags opened and not yet closed on a
\* stack: every closing tag closes the tag opened last, and none stays open.
RECURSIVE WellNestedFrom(_, _)
WellNestedFrom(tokens, stack) ==
    IF tokens = <<>> THEN stack = <<>>
    ELSE LET tok == Head(tokens)
         IN CASE tok.k = "open" ->
                     WellNestedFrom(Tail(tokens), Append(stack, tok.tag))
              [] tok.k = "close" ->
                     /\ stack # <<>>
                     /\ Last(stack) = tok.tag
                     /\ WellNestedFrom(Tail(tokens), SubSeq(stack, 1, Len(stack) - 1))
              [] OTHER -> WellNestedFrom(Tail(tokens), stack)

WellNested(tokens) == WellNestedFrom(tokens, <<>>)

\* The positions of a fragment where a label tag holds a run of text.
LabelTextAt(fragment) ==
    {i \in 2..Len(fragment) :
        /\ fragment[i].k = "text"
        /\ fragment[i - 1].k = "open"
        /\ fragment[i - 1].tag = "label"}

\* The text the label of a fragment reads.
LabelText(fragment) == fragment[CHOOSE i \in LabelTextAt(fragment) : TRUE].text

\* The last call rendered a field or an embed that has no custom label and is
\* not hidden, so its label is made from the caption.
CaptionLabelled ==
    \/ /\ call.op = "field"
       /\ ~Truthy(call.visit.field.label)
       /\ call.visit.field.widget.type # <<"hidden">>
    \/ /\ call.op = "embed"
       /\ ~Truthy(call.visit.field.type.label)

Seg_root == <<"r", "o", "o", "t">>
Seg_address == <<"a", "d", "d", "r", "e", "s", "s">>
Seg_city == <<"c", "i", "t", "y">>

\* C2 (as claimed): starting from an empty registry, once a render pass that
\* visited at least one embed or embedList field has ended, on either variant,
\* the registry holds exactly one entry, named 'built-in embed/embedList'.
C2_OneEmbedEntry ==
    (phase = "ended" /\ \E i \in 1..Len(pass) : pass[i] \in {"embed", "embedList"})
        => /\ Len(initialization_markup) = 1
           /\ initialization_markup[1].key = EmbedMarkupName

\* C5: under a driver whose groups are balanced and nested between start() and
\* end(), the depth of the renderer is the number of groups open, never
\* negative, and 0 when end() is called, on either variant.
C5_DepthCountsOpenGroups ==
    phase # "constructed" =>
        /\ renderer.depth = Len(open)
        /\ renderer.depth >= 0
        /\ (call.op = "end" => renderer.depth = 0)

\* C5 witness: end() has been called on the div variant after a pass that
\* nested a group in a group.
C5_Witness ==
    /\ phase = "ended"
    /\ variant = "div"
    /\ \E i \in 1..(Len(pass) - 1) : pass[i] = "beginGroup" /\ pass[i + 1] = "beginGroup"

\* C6 (as claimed): the label of a field or embed without a custom label reads
\* the capitalized path relative to the innermost enclosing group; so after
\* start() and beginGroup(["root","address"]) the field at
\* ["root","address","city"] is labelled "City".
C6_CaptionRelativeToGroup ==
    (CaptionLabelled /\ open # <<>>) =>
        /\ LabelTextAt(ret) # {}
        /\ LabelText(ret) =
              Capitalized(Join(SubSeq(call.path, Len(Last(open)) + 1, Len(call.path)),
                               <<" ">>))
        /\ (call.path = <<Seg_root, Seg_address, Seg_city>> /\ Len(open) = 1)
              => LabelText(ret) = <<"C", "i", "t", "y">>

\* C6 (amended): the label of a field or embed without a custom label reads
\* the capitalized path with its first `depth` segments removed, joined by
\* spaces.  That is the path relative to the innermost enclosing group when the
\* top level of the form has the empty path: after start() and
\* beginGroup(["address"]) the field at ["address","city"] is labelled "City".
\* After start() and beginGroup(["root","address"]) the field at
\* ["root","address","city"] is labelled "Address city".
C6_CaptionDropsDepthSegments ==
    CaptionLabelled =>
        /\ LabelTextAt(ret) # {}
        /\ LabelText(ret) =
              Capitalized(Join(ArraySlice(call.path, renderer.depth), <<" ">>))
        /\ (root = <<>> /\ open # <<>>)
              => LabelText(ret) =
                    Capitalized(Join(SubSeq(call.path, Len(Last(open)) + 1,
                                            Len(call.path)), <<" ">>))
        /\ (call.path = <<Seg_address, Seg_city>> /\ Len(open) = 1)
              => LabelText(ret) = <<"C", "i", "t", "y">>
        /\ (call.path = <<Seg_root, Seg_address, Seg_city>> /\ Len(open) = 1)
              => LabelText(ret) =
                    <<"A", "d", "d", "r", "e", "s", "s", " ", "c", "i", "t", "y">>

\* C6 witness: the table renderer has rendered the field at
\* ["root","address","city"] right after start() and beginGroup(["root","address"]).
C6_Witness ==
    /\ variant = "table"
    /\ pass = <<"start", "beginGroup", "field">>
    /\ open = <<(<<Seg_root, Seg_address>>)>>
    /\ call.op = "field"
    /\ call.path = <<Seg_root, Seg_address, Seg_city>>
    /\ ~Truthy(call.visit.field.label)

\* C7 (as claimed): once end() has been called, the concatenation of the
\* fragments returned in the pass is balanced, well-nested markup, on either
\* variant (the markup of a widget being balanced in itself).
C7_BalancedMarkup ==
    phase = "ended" => WellNested(html)

\* The widget.toHTML calls a fragment holds the markup of, in order.
RECURSIVE WidgetCalls(_)
WidgetCalls(fragment) ==
    IF fragment = <<>> THEN <<>>
    ELSE (IF Head(fragment).k = "widget" THEN <<Head(fragment)>> ELSE <<>>)
         \o WidgetCalls(Tail(fragment))

\* The positions of a fragment where a container of class "errors" opens.
ErrorContainersAt(fragment) ==
    {i \in 1..Len(fragment) :
        /\ fragment[i].k = "open"
        /\ fragment[i].tag \in {"td", "div"}
        /\ \E a \in 1..Len(fragment[i].attrs) :
              fragment[i].attrs[a] = Attr("class", <<"errors">>)}

\* C11 (as claimed): for a value sequence of length n, embedList emits exactly
\* n units of widget markup in sequence order, the i-th being widget.toHTML
\* called with the i-th element as its value; the table and the div variant
\* issue the same widget calls with the same arguments for the same visit; and
\* one error container follows the units.
C11_EmbedListWidgetCalls ==
    call.op = "embedList" =>
        LET elems == EachElement(call.visit.value)
            calls == WidgetCalls(ret)
            v == call.visit
        IN /\ Len(calls) = Len(elems)
           /\ \A i \in 1..Len(calls) :
                 /\ calls[i].value = elems[i]
                 /\ calls[i].name = Join(call.path, <<".">>)
                 /\ calls[i].raw = v.raw
           /\ WidgetCalls(table_embedList(renderer, initialization_markup, v.field,
                                          call.path, v.value, v.raw, v.errors).html)
                = WidgetCalls(div_embedList(renderer, initialization_markup, v.field,
                                            call.path, v.value, v.raw, v.errors).html)
           /\ Cardinality(ErrorContainersAt(ret)) = 1
           /\ \A i \in ErrorContainersAt(ret), j \in 1..Len(ret) :
                 ret[j].k = "widget" => j < i

\* --------------------------------------------------------------- validators

\* `throw new Error(message)`: the outcome of a call that raised.
Thrown(message) == [t |-> "thrown", v |-> message]

\* utils.isArray
isArray(x) == x.t = "array"

\* utils.getPropertyPath(obj, path): the value reached from obj by following
\* the segments of path, undefined when a segment is missing.
RECURSIVE getPropertyPath(_, _)
getPropertyPath(obj, path) ==
    IF path = <<>> THEN obj
    ELSE IF obj.t # "object" THEN Undefined
    ELSE getPropertyPath(GetProperty(obj.v, Head(path)), Tail(path))

\* A matchUsername that raises only when neither value is empty-like.
MatchUsernameBothNonEmpty(newDoc, oldDoc, newVal, oldVal, userCtx) ==
    LET name == GetProperty(userCtx.v, <<"name">>)
    IN IF ~StrictEquals(name, newVal)
       THEN IF (/\ ~StrictEquals(name, Null)
                /\ ~StrictEquals(name, Undefined)
                /\ ~StrictEquals(name, JSString(<<>>)))
               /\ (/\ ~StrictEquals(newVal, Null)
                   /\ ~StrictEquals(newVal, Undefined)
                   /\ ~StrictEquals(newVal, JSString(<<>>)))
            THEN Thrown(<<"Field does not match your username">>)
            ELSE Undefined
       ELSE Undefined

\* The validator exports.matchUsername() returns.
matchUsername(newDoc, oldDoc, newVal, oldVal, userCtx) ==
    LET name == GetProperty(userCtx.v, <<"name">>)
    IN IF ~StrictEquals(name, newVal)
       THEN IF (/\ ~StrictEquals(name, Null)
                /\ ~StrictEquals(name, Undefined)
                /\ ~StrictEquals(name, JSString(<<>>)))
               \/ (/\ ~StrictEquals(newVal, Null)
                   /\ ~StrictEquals(newVal, Undefined)
                   /\ ~StrictEquals(newVal, JSString(<<>>)))
            THEN Thrown(<<"Field does not match your username">>)
            ELSE Undefined
       ELSE Undefined

\* An uneditable that does not look at oldDoc.
UneditableIgnoringOldDoc(newDoc, oldDoc, newValue, oldValue, userCtx) ==
    IF ~StrictEquals(newValue, oldValue)
    THEN Thrown(<<"Field cannot be edited once created">>)
    ELSE Undefined

\* The validator exports.uneditable() returns.
uneditable(newDoc, oldDoc, newValue, oldValue, userCtx) ==
    IF Truthy(oldDoc)
    THEN IF ~StrictEquals(newValue, oldValue)
         THEN Thrown(<<"Field cannot be edited once created">>)
         ELSE Undefined
    ELSE Undefined

\* A usernameMatchesField that compares the user name with newValue.
UsernameMatchesNewValue(path, newDoc, oldDoc, newValue, oldValue, userCtx) ==
    LET segments == IF ~isArray(path) THEN <<path.v>> ELSE path.v
    IN IF ~StrictEquals(GetProperty(userCtx.v, <<"name">>), newValue)
       THEN Thrown(<<"username does not match field: ">> \o Join(segments, <<".">>))
       ELSE Undefined

\* exports.usernameMatchesField(path), and the validator it returns.
usernameMatchesField(path, newDoc, oldDoc, newValue, oldValue, userCtx) ==
    LET segments == IF ~isArray(path) THEN <<path.v>> ELSE path.v
        field == getPropertyPath(newDoc, segments)
    IN IF ~StrictEquals(GetProperty(userCtx.v, <<"name">>), field)
       THEN Thrown(<<"username does not match field: ">> \o Join(segments, <<".">>))
       ELSE Undefined

\* -------------------------------------------------------- validation driver

\* The document-update hook: it calls a validator with
\* (newDoc, oldDoc, newValue, oldValue, userCtx).

Str_bob == <<"b", "o", "b">>
Str_al == <<"a", "l">>

ValidatorValues ==
    { Undefined, Null, JSString(<<>>), JSString(Str_bob), JSString(Str_al),
      JSNumber("0"), JSNumber("NaN"), JSBoolean("false"),
      JSObject(1, <<>>), JSObject(2, <<>>) }

\* userCtx objects: without a name, and with each value as the name.
UserContexts ==
    { JSObject(7, <<>>) }
    \cup { JSObject(7, <<[key |-> <<"name">>, value |-> n]>>) : n \in ValidatorValues }

Prop(key, value) == [key |-> key, value |-> value]

Documents ==
    { JSObject(3, <<>>),
      JSObject(3, <<Prop(<<"a">>, JSString(Str_bob))>>),
      JSObject(3, <<Prop(<<"a">>, JSObject(4, <<Prop(<<"b">>, JSString(Str_bob))>>))>>),
      JSObject(3, <<Prop(<<"a">>, JSObject(4, <<Prop(<<"b">>, JSString(Str_al))>>)),
                    Prop(<<"b">>, JSString(Str_bob))>>) }

OldDocuments ==
    { Undefined, Null, JSString(<<>>), JSNumber("0"), JSObject(5, <<>>),
      JSObject(5, <<Prop(<<"a">>, JSString(Str_bob))>>) }

\* The argument of usernameMatchesField: one segment, or an array of segments.
PathArguments ==
    { JSString(<<"a">>), JSArray(<<(<<"a">>)>>), JSArray(<<(<<"a">>), <<"b">>>>),
      JSString(<<"b">>), JSArray(<<(<<"b">>), <<"a">>>>) }

InitValidate ==
    /\ initialization_markup = <<>>
    /\ firstRegistered = <<>>
    /\ generated = 0
    /\ call = NoCall
    /\ ret = Undefined
    /\ variant = "table"
    /\ renderer = NewRenderer
    /\ root = <<>>
    /\ phase = "constructed"
    /\ open = <<>>
    /\ html = <<>>
    /\ pass = <<>>

Arguments(newDoc, oldDoc, newValue, oldValue, userCtx) ==
    [newDoc |-> newDoc, oldDoc |-> oldDoc, newValue |-> newValue,
     oldValue |-> oldValue, userCtx |-> userCtx]

CallMatchUsername(newDoc, oldDoc, newValue, oldValue, userCtx) ==
    /\ call' = [op |-> "matchUsername",
                args |-> Arguments(newDoc, oldDoc, newValue, oldValue, userCtx)]
    /\ ret' = matchUsername(newDoc, oldDoc, newValue, oldValue, userCtx)
    /\ UNCHANGED <<registryVars, renderVars>>

CallUneditable(newDoc, oldDoc, newValue, oldValue, userCtx) ==
    /\ call' = [op |-> "uneditable",
                args |-> Arguments(newDoc, oldDoc, newValue, oldValue, userCtx)]
    /\ ret' = uneditable(newDoc, oldDoc, newValue, oldValue, userCtx)
    /\ UNCHANGED <<registryVars, renderVars>>

CallUsernameMatchesField(path, newDoc, oldDoc, newValue, oldValue, userCtx) ==
    /\ call' = [op |-> "usernameMatchesField", path |-> path,
                args |-> Arguments(newDoc, oldDoc, newValue, oldValue, userCtx)]
    /\ ret' = usernameMatchesField(path, newDoc, oldDoc, newValue, oldValue, userCtx)
    /\ UNCHANGED <<registryVars, renderVars>>

NextValidate ==
    \/ \E newDoc \in {JSObject(3, <<>>)}, oldDoc \in {Null, JSObject(5, <<>>)},
          newValue \in ValidatorValues, oldValue \in {Undefined},
          userCtx \in UserContexts :
          CallMatchUsername(newDoc, oldDoc, newValue, oldValue, userCtx)
    \/ \E newDoc \in {JSObject(3, <<>>)}, oldDoc \in OldDocuments,
          newValue \in ValidatorValues, oldValue \in ValidatorValues,
          userCtx \in {JSObject(7, <<>>)} :
          CallUneditable(newDoc, oldDoc, newValue, oldValue, userCtx)
    \/ \E path \in PathArguments, newDoc \in Documents,
          oldDoc \in {Null, JSObject(5, <<>>)},
          newValue \in {Undefined, JSString(Str_bob)},
          oldValue \in {Undefined, JSString(Str_al)},
          userCtx \in { JSObject(7, <<>>),
                        JSObject(7, <<Prop(<<"name">>, JSString(Str_bob))>>),
                        JSObject(7, <<Prop(<<"name">>, JSString(Str_al))>>) } :
          CallUsernameMatchesField(path, newDoc, oldDoc, newValue, oldValue, userCtx)

SpecValidate == InitValidate /\ [][NextValidate]_vars

\* --------------------------------------------------------- validator claims

\* null, undefined and the empty string.
EmptyLike == { Null, Undefined, JSString(<<>>) }

\* The values `if (x)` takes as false.
Falsy ==
    { Undefined, Null, JSString(<<>>), JSNumber("0"), JSNumber("NaN"),
      JSBoolean("false") }

UserName == GetProperty(call.args.userCtx.v, <<"name">>)

\* C8: the validator of matchUsername() raises 'Field does not match your
\* username' exactly when userCtx.name !== newValue and at least one of the two
\* is not empty-like; for every other pair it returns normally.
C8_MatchUsernameRaises ==
    call.op = "matchUsername" =>
        IF /\ ~StrictEquals(UserName, call.args.newValue)
           /\ (UserName \notin EmptyLike \/ call.args.newValue \notin EmptyLike)
        THEN ret = Thrown(<<"Field does not match your username">>)
        ELSE ret = Undefined

\* C8 witness: the name is null and the value is the empty string, two different
\* empty-like values, and the validator returned normally.
C8_Witness ==
    /\ call.op = "matchUsername"
    /\ UserName = Null
    /\ call.args.newValue = JSString(<<>>)
    /\ ret = Undefined

\* C9: the validator of uneditable() raises 'Field cannot be edited once
\* created' exactly when oldDoc is truthy and newValue !== oldValue; when oldDoc
\* is falsy it never raises.
C9_UneditableRaises ==
    call.op = "uneditable" =>
        IF /\ call.args.oldDoc \notin Falsy
           /\ ~StrictEquals(call.args.newValue, call.args.oldValue)
        THEN ret = Thrown(<<"Field cannot be edited once created">>)
        ELSE ret = Undefined

\* C9 witness: there is no old document, the value differs from the old value,
\* and the validator returned normally.
C9_Witness ==
    /\ call.op = "uneditable"
    /\ call.args.oldDoc = Null
    /\ call.args.newValue = JSString(Str_bob)
    /\ call.args.oldValue = JSString(Str_al)
    /\ ret = Undefined

\* The segments a path argument stands for.
SegmentsOf(path) == IF path.t = "array" THEN path.v ELSE <<path.v>>

\* C10: usernameMatchesField(path) takes one segment or a sequence of segments,
\* one segment behaving like the one-element sequence; its validator raises
\* 'username does not match field: ' followed by the segments joined with '.'
\* unless userCtx.name strictly equals the value the path resolves to in newDoc,
\* whatever newValue, oldValue and oldDoc are.
C10_UsernameMatchesField ==
    call.op = "usernameMatchesField" =>
        /\ IF StrictEquals(UserName, getPropertyPath(call.args.newDoc, SegmentsOf(call.path)))
           THEN ret = Undefined
           ELSE ret = Thrown(<<"username does not match field: ">>
                             \o Join(SegmentsOf(call.path), <<".">>))
        /\ ret = usernameMatchesField(JSArray(SegmentsOf(call.path)),
                                      call.args.newDoc, call.args.oldDoc,
                                      call.args.newValue, call.args.oldValue,
                                      call.args.userCtx)
        /\ \A oldDoc \in OldDocuments, newValue, oldValue \in ValidatorValues :
               ret = usernameMatchesField(call.path, call.args.newDoc, oldDoc,
                                          newValue, oldValue, call.args.userCtx)

\* C10 witness: path ["a","b"] resolves in newDoc to "al", the user is "bob",
\* newValue is "bob", and the validator raised, naming the field a.b.
C10_Witness ==
    /\ call.op = "usernameMatchesField"
    /\ call.path = JSArray(<<(<<"a">>), <<"b">>>>)
    /\ UserName = JSString(Str_bob)
    /\ call.args.newValue = JSString(Str_bob)
    /\ getPropertyPath(call.args.newDoc, <<(<<"a">>), <<"b">>>>) = JSString(Str_al)
    /\ ret = Thrown(<<"username does not match field: ", "a", ".", "b">>)

=============================================================================
